---- MODULE Spec2Model ----
(***************************************************************************)
(* Utilifi (src/index.py): a single-window Qt utility with a process       *)
(* table and a kill button, a mini browser, a ping panel and a tray icon.  *)
(* The model follows the handlers of UtilifiWindow, ProcessTable and       *)
(* TitleBar.  Texts are sequences of one-character strings, so that        *)
(* strip(), startswith(), splitlines() and the regular expressions of      *)
(* do_ping are computed the way the code computes them.  Characters        *)
(* outside ASCII are written as named tokens: "cyr_v" is the Cyrillic      *)
(* letter ve, "[check]" the check-mark emoji, and so on.                   *)
(***************************************************************************)
EXTENDS Integers, Sequences, FiniteSets, TLC

VARIABLES
    \* ---- ping panel (create_network_panel, do_ping)
    ping_edit,      \* text of the host line edit
    ping_result,    \* text of the result label
    ping_style,     \* colour of the result label: "accent", "success", "danger"
    ping_stack,     \* hosts of the do_ping calls that are inside processEvents
    ping_last,      \* what the last write to ping_result was, and from which run
    ping_recent,    \* host of the do_ping call that started last with a host
    \* ---- browser panel (browser_go)
    url_edit,       \* text of the address bar
    navigated,      \* the URL last handed to the web view / system browser
    go_last,        \* the text the last browser_go read, and whether it navigated
    WEB_AVAILABLE,  \* whether PyQtWebEngine could be imported (lines 35-39)
    \* ---- process table (ProcessTable)
    table,          \* rows of the table widget, each a record of four cells
    selected,       \* selected row index, 0 when nothing is selected
    last_snap,      \* the snapshot the last refresh() got from process_iter
    last_refresh,   \* who called the last refresh(), and how it ended
    \* ---- kill_selected
    kpc,            \* position inside kill_selected
    kpid,           \* the PID kill_selected read from the table
    proc,           \* the target process: "none", "alive", "exited"
    elapsed,        \* seconds spent in wait_procs
    klog,           \* requests sent to the process and the result of the wait
    kexc,           \* the exception raised inside the try block, "none" if none
    dialog,         \* the message box on screen, "none" if none
    kdone,          \* the reply, the dialogs and the refreshes of the current or last call
    \* ---- window, tray and timers
    window,         \* "shown", "minimized", "hidden", "closed"
    tray,           \* TRUE while the tray icon is visible
    running,        \* TRUE while the application's event loop runs
    timer_active,   \* TRUE while the 3000 ms process timer is active
    close_event,    \* what the last closeEvent did to its event
    tick,           \* flips at every timeout of the process timer
    \* ---- reset_gpu
    WINDOWS_AVAILABLE,  \* whether ctypes.wintypes could be imported (lines 41-49)
    gpu_last        \* the key events, the message box and the return of the last reset_gpu

pingVars == <<ping_edit, ping_result, ping_style, ping_stack, ping_last, ping_recent>>
browserVars == <<url_edit, navigated, go_last, WEB_AVAILABLE>>
tableVars == <<table, selected, last_snap, last_refresh>>
killVars == <<kpc, kpid, proc, elapsed, klog, kexc, dialog, kdone>>
windowVars == <<window, tray, running, timer_active, close_event, tick>>
gpuVars == <<WINDOWS_AVAILABLE, gpu_last>>
vars == <<pingVars, browserVars, tableVars, killVars, windowVars, gpuVars>>

-----------------------------------------------------------------------------
\* Text helpers: Python's str methods on sequences of characters.

Digits == {"0", "1", "2", "3", "4", "5", "6", "7", "8", "9"}

IsDigit(c) == c \in Digits

\* str.isspace / the regex class \s, for the characters the model uses
IsSpace(c) == c \in {" ", "\t", "\n", "\r"}

\* str.lower() on one character
Lower(c) ==
    CASE c = "T" -> "t" [] c = "I" -> "i" [] c = "M" -> "m" [] c = "E" -> "e"
      [] c = "S" -> "s" [] c = "L" -> "l" [] c = "H" -> "h" [] c = "P" -> "p"
      [] c = "CYR_V" -> "cyr_v" [] c = "CYR_R" -> "cyr_r"
      [] c = "CYR_E" -> "cyr_e" [] c = "CYR_M" -> "cyr_m"
      [] c = "CYR_YA" -> "cyr_ya" [] c = "CYR_S" -> "cyr_s"
      [] OTHER -> c

\* str.lower()
LowerText(s) == [i \in 1..Len(s) |-> Lower(s[i])]

\* s[i:] (1-based i)
Drop(s, i) == SubSeq(s, i, Len(s))

\* str.startswith(w)
StartsWith(s, w) == Len(s) >= Len(w) /\ SubSeq(s, 1, Len(w)) = w

\* w in s
Contains(s, w) ==
    \E i \in 1..(Len(s) + 1) : StartsWith(Drop(s, i), w)

RECURSIVE LStrip(_)
LStrip(s) == IF s # <<>> /\ IsSpace(Head(s)) THEN LStrip(Tail(s)) ELSE s

RECURSIVE RStrip(_)
RStrip(s) ==
    IF s # <<>> /\ IsSpace(s[Len(s)]) THEN RStrip(SubSeq(s, 1, Len(s) - 1)) ELSE s

\* str.strip()
Strip(s) == RStrip(LStrip(s))

\* str.splitlines(): breaks at "\n", "\r" and "\r\n", no empty last line
RECURSIVE SplitFrom(_, _)
SplitFrom(s, cur) ==
    IF s = <<>> THEN (IF cur = <<>> THEN <<>> ELSE <<cur>>)
    ELSE IF Head(s) = "\r" /\ Len(s) >= 2 /\ s[2] = "\n"
         THEN <<cur>> \o SplitFrom(Drop(s, 3), <<>>)
    ELSE IF Head(s) \in {"\n", "\r"}
         THEN <<cur>> \o SplitFrom(Tail(s), <<>>)
    ELSE SplitFrom(Tail(s), Append(cur, Head(s)))

SplitLines(s) == SplitFrom(s, <<>>)

-----------------------------------------------------------------------------
\* do_ping: the regular expressions of lines 614-618, matched the way
\* re.search(pattern, line, re.IGNORECASE) matches them.

W_time == <<"t", "i", "m", "e">>
W_vremya == <<"cyr_v", "cyr_r", "cyr_e", "cyr_m", "cyr_ya">>
W_ms == <<"m", "s">>
W_mc == <<"cyr_m", "cyr_s">>

\* frac: the group is (\d+\.?\d*) and \s* may precede the unit;
\* otherwise the group is (\d+) and the unit follows it directly
patterns ==
    << [word |-> W_time, unit |-> W_ms, frac |-> TRUE],
       [word |-> W_vremya, unit |-> W_mc, frac |-> TRUE],
       [word |-> W_time, unit |-> W_ms, frac |-> FALSE] >>

\* s[i:i+len(w)] equals w, ignoring case
WordAt(s, i, w) ==
    /\ i + Len(w) - 1 <= Len(s)
    /\ LowerText(SubSeq(s, i, i + Len(w) - 1)) = w

\* the index after the longest run of \s starting at i
RECURSIVE SkipSpaces(_, _)
SkipSpaces(s, i) ==
    IF i <= Len(s) /\ IsSpace(s[i]) THEN SkipSpaces(s, i + 1) ELSE i

\* the index after the longest run of \d starting at i
RECURSIVE SkipDigits(_, _)
SkipDigits(s, i) ==
    IF i <= Len(s) /\ IsDigit(s[i]) THEN SkipDigits(s, i + 1) ELSE i

\* group(1) of a match of pattern p that starts at index i, <<>> when there
\* is none.  The quantifiers are greedy; giving characters back never turns
\* a failure into a match here, because the character after a run of
\* digits or blanks cannot start what follows it in the pattern.
MatchAt(s, i, p) ==
    LET j == i + Len(p.word)
        k == SkipSpaces(s, j + 1)
        d1 == SkipDigits(s, k)
        d2 == IF p.frac /\ d1 <= Len(s) /\ s[d1] = "."
              THEN SkipDigits(s, d1 + 1) ELSE d1
        u == IF p.frac THEN SkipSpaces(s, d2) ELSE d1
        ge == IF p.frac THEN d2 ELSE d1
    IN  IF /\ WordAt(s, i, p.word)
           /\ j <= Len(s) /\ s[j] \in {"=", "<"}
           /\ d1 > k
           /\ WordAt(s, u, p.unit)
        THEN SubSeq(s, k, ge - 1)
        ELSE <<>>

\* re.search: group(1) of the leftmost match, <<>> when nothing matches
Search(p, s) ==
    LET hits == {i \in 1..Len(s) : MatchAt(s, i, p) # <<>>}
    IN  IF hits = {} THEN <<>>
        ELSE MatchAt(s, CHOOSE i \in hits : \A h \in hits : i <= h, p)

T_OK == <<"O", "K">>

\* the inner loop over the patterns (lines 619-623): the first pattern
\* that matches sets ms
RECURSIVE TryPatterns(_, _)
TryPatterns(ps, line) ==
    IF ps = <<>> THEN T_OK
    ELSE LET g == Search(Head(ps), line)
         IN  IF g # <<>> THEN g \o <<" ", "m", "s">>
             ELSE TryPatterns(Tail(ps), line)

\* the guard of line 611
LineHasTime(line) ==
    \/ Contains(LowerText(line), W_time \o <<"=">>)
    \/ Contains(LowerText(line), W_vremya \o <<"=">>)

\* the loop over the output lines (lines 609-625)
RECURSIVE ParseLines(_)
ParseLines(lines) ==
    IF lines = <<>> THEN T_OK
    ELSE LET ms == IF LineHasTime(Head(lines))
                   THEN TryPatterns(patterns, Head(lines))
                   ELSE T_OK
         IN  IF ms # T_OK THEN ms ELSE ParseLines(Tail(lines))

ParseMs(out) == ParseLines(SplitLines(out))

\* the texts do_ping writes to ping_result
T_Dash == <<"[dash]">>
T_EnterHost == <<"V", "v", "e", "d", "i", "t", "e", " ", "h", "o", "s", "t">>
T_Hourglass == <<"[hourglass]">>
T_NoReply == <<"[cross]", " ", "N", "e", "t", " ", "o", "t", "v", "e", "t", "a">>
T_Timeout == <<"[stopwatch]", " ", "T", "a", "i", "m", "a", "u", "t">>
T_Error == <<"[warning]", " ", "O", "s", "h", "i", "b", "k", "a">>
T_Success(ms) == <<"[check]", " ">> \o ms

\* check_output without the check of the exit code (subprocess.run semantics)
check_output_unchecked(run) ==
    IF ~run.launched THEN "OSError"
    ELSE IF run.seconds > 5 THEN "TimeoutExpired"
    ELSE "none"

\* subprocess.check_output(cmd, timeout=5): the exception it raises for a
\* run of the ping command, "none" when it returns the output
PingTimeout == 5

check_output(run) ==
    IF ~run.launched THEN "OSError"
    ELSE IF run.seconds > PingTimeout THEN "TimeoutExpired"
    ELSE IF run.rc # 0 THEN "CalledProcessError"
    ELSE "none"

\* do_ping that reports a run without a time value as a failure
PingStatus_no_fallback(run) ==
    LET e == check_output(run)
    IN  IF e = "none" /\ ParseMs(run.out) # T_OK
        THEN [text |-> T_Success(ParseMs(run.out)), style |-> "success"]
        ELSE IF e = "none" \/ e = "CalledProcessError"
        THEN [text |-> T_NoReply, style |-> "danger"]
        ELSE IF e = "TimeoutExpired"
        THEN [text |-> T_Timeout, style |-> "danger"]
        ELSE [text |-> T_Error, style |-> "danger"]

\* the try/except of do_ping (lines 600-639): the text and the style
\* the run ends with
PingStatus(run) ==
    LET e == check_output(run)
    IN  IF e = "none"
        THEN [text |-> T_Success(ParseMs(run.out)), style |-> "success"]
        ELSE IF e = "CalledProcessError"
        THEN [text |-> T_NoReply, style |-> "danger"]
        ELSE IF e = "TimeoutExpired"
        THEN [text |-> T_Timeout, style |-> "danger"]
        ELSE [text |-> T_Error, style |-> "danger"]

-----------------------------------------------------------------------------
\* Output lines of the ping command, as the platforms and locales print them.

\* PING 8.8.8.8
L_hdr ==
    <<"P", "I", "N", "G", " ", "8", ".", "8", ".", "8", ".", "8">>

\* ttl=117 time=12.3 ms
L_linux ==
    <<"t", "t", "l", "=", "1", "1", "7", " ", "t", "i", "m", "e", "=", "1", "2", ".", "3", " ", "m", "s">>

\* time=14ms TTL=117
L_win ==
    <<"t", "i", "m", "e", "=", "1", "4", "m", "s", " ", "T", "T", "L", "=", "1", "1", "7">>

\* time<1ms TTL=128
L_winlt ==
    <<"t", "i", "m", "e", "<", "1", "m", "s", " ", "T", "T", "L", "=", "1", "2", "8">>

\* vremya=14ms
L_ru ==
    <<"cyr_v", "cyr_r", "cyr_e", "cyr_m", "cyr_ya", "=", "1", "4", "cyr_m", "cyr_s">>

\* vremya<1ms
L_rult ==
    <<"cyr_v", "cyr_r", "cyr_e", "cyr_m", "cyr_ya", "<", "1", "cyr_m", "cyr_s">>

\* TIME=5 MS
L_upper ==
    <<"T", "I", "M", "E", "=", "5", " ", "M", "S">>

\* VREMYA=3 MS
L_ruupper ==
    <<"CYR_V", "CYR_R", "CYR_E", "CYR_M", "CYR_YA", "=", "3", " ", "CYR_M", "CYR_S">>

\* time=abc
L_bad ==
    <<"t", "i", "m", "e", "=", "a", "b", "c">>

\* rtt 1/2 ms
L_stats ==
    <<"r", "t", "t", " ", "1", "/", "2", " ", "m", "s">>

\* time= 7  ms
L_spaced ==
    <<"t", "i", "m", "e", "=", " ", "7", " ", " ", "m", "s">>

NL == <<"\n">>
CRNL == <<"\r", "\n">>

\* the captured output of one run, stdout and stderr together
PingOutputs ==
    { <<>>,
      L_hdr \o NL \o L_linux \o NL \o L_stats \o NL,
      L_hdr \o CRNL \o L_win \o CRNL,
      L_winlt \o NL,
      L_ru,
      L_rult,
      L_upper,
      L_ruupper,
      L_hdr \o NL \o L_stats,
      L_bad \o NL \o L_linux,
      L_bad,
      L_linux \o NL \o L_win,
      L_winlt \o NL \o L_linux,
      L_hdr \o NL \o L_spaced }

\* runs of the ping command: whether it could be started, how long it took
\* (seconds), its exit code and its output
PingRuns ==
    [launched : {TRUE}, seconds : {1}, rc : {0}, out : PingOutputs]
    \cup [launched : {TRUE}, seconds : {1}, rc : {1, 2}, out : {<<>>, L_linux}]
    \cup [launched : {TRUE}, seconds : {PingTimeout + 1}, rc : {0, 1}, out : {<<>>, L_linux}]
    \cup [launched : {FALSE}, seconds : {0}, rc : {0, 1}, out : {<<>>}]

NoRun == [launched |-> FALSE, seconds |-> 0, rc |-> 0, out |-> <<>>]

\* the initial text of ping_edit (line 536) and what the user may type
H_Default == <<"8", ".", "8", ".", "8", ".", "8">>

PingHosts == {H_Default, <<>>, <<" ", " ">>, <<" ", "h", " ">>}

-----------------------------------------------------------------------------
\* Where the main thread is.  Qt runs every handler on the one GUI thread;
\* other handlers run only while it dispatches events: at the top level,
\* inside QApplication.processEvents() of do_ping, or inside the nested
\* loop of a message box (where the window takes no input).

MaxNest == 2

\* the thread dispatches user input to the window's widgets
CanClick ==
    /\ running
    /\ window = "shown"
    /\ kpc = "idle"
    /\ dialog = "none"

\* the user edits the host field
ping_edit_typed(hosts) ==
    /\ CanClick
    /\ \E t \in hosts : ping_edit' = t
    /\ UNCHANGED <<ping_result, ping_style, ping_stack, ping_last, ping_recent>>
    /\ UNCHANGED <<browserVars, tableVars, killVars, windowVars, gpuVars>>

\* do_ping up to and including QApplication.processEvents() (lines 587-595)
do_ping_begin ==
    /\ CanClick
    /\ Len(ping_stack) < MaxNest
    /\ LET host == Strip(ping_edit)
       IN  IF host = <<>>
           THEN /\ ping_result' = T_EnterHost
                /\ ping_last' = [kind |-> "empty", host |-> host, run |-> NoRun]
                /\ UNCHANGED <<ping_stack, ping_recent>>
           ELSE /\ ping_result' = T_Hourglass
                /\ ping_last' = [kind |-> "pending", host |-> host, run |-> NoRun]
                /\ ping_stack' = Append(ping_stack, host)
                /\ ping_recent' = host
    /\ UNCHANGED <<ping_edit, ping_style>>
    /\ UNCHANGED <<browserVars, tableVars, killVars, windowVars, gpuVars>>

\* the rest of the innermost do_ping (lines 597-639): processEvents returns,
\* the ping command runs while the thread blocks, the status is written
do_ping_finish(runs) ==
    /\ ping_stack # <<>>
    /\ kpc = "idle"
    /\ dialog = "none"
    /\ \E run \in runs :
         /\ ping_result' = PingStatus(run).text
         /\ ping_style' = PingStatus(run).style
         /\ ping_last' = [kind |-> "final",
                          host |-> ping_stack[Len(ping_stack)],
                          run |-> run]
    /\ ping_stack' = SubSeq(ping_stack, 1, Len(ping_stack) - 1)
    /\ UNCHANGED <<ping_edit, ping_recent>>
    /\ UNCHANGED <<browserVars, tableVars, killVars, windowVars, gpuVars>>

-----------------------------------------------------------------------------
\* browser_go (lines 698-710)

P_http == <<"h", "t", "t", "p", ":", "/", "/">>
P_https == <<"h", "t", "t", "p", "s", ":", "/", "/">>

\* the initial text of url_edit (line 467)
U_Default == P_https \o <<"w", "w", "w", ".", "g", "o", "o", "g", "l", "e", ".", "c", "o", "m">>

U_ab == <<"a", ".", "b">>

\* what the user may leave in the address bar
UrlTexts ==
    { U_Default,
      <<>>,
      <<" ", "\t">>,
      U_ab,
      <<" ">> \o U_ab \o <<" ">>,
      P_http \o U_ab,
      P_https \o U_ab,
      <<" ">> \o P_https \o U_ab \o <<"\n">>,
      <<"H", "T", "T", "P", ":", "/", "/">> \o U_ab,
      <<"h", "t", "t", "p", ":", "/">> \o U_ab,
      <<"f", "t", "p", ":", "/", "/">> \o U_ab,
      P_https,
      P_http \o P_https \o U_ab,
      <<"h", "t", "t", "p", "s">> }

\* the scheme test with 'http://' alone
NormalizeUrl_http_only(url) ==
    IF ~StartsWith(url, P_http)
    THEN P_https \o url
    ELSE url

\* lines 704-705: the scheme is added unless the text has one
NormalizeUrl(url) ==
    IF ~(StartsWith(url, P_http) \/ StartsWith(url, P_https))
    THEN P_https \o url
    ELSE url

\* lines 707-710: where the URL goes
NavigateTo(url) ==
    IF WEB_AVAILABLE
    THEN [via |-> "QWebEngineView.setUrl", url |-> url]
    ELSE [via |-> "webbrowser.open", url |-> url]

NoNavigation == [via |-> "none", url |-> <<>>]

\* the user edits the address bar
url_edit_typed(texts) ==
    /\ CanClick
    /\ \E t \in texts : url_edit' = t
    /\ UNCHANGED <<navigated, go_last, WEB_AVAILABLE>>
    /\ UNCHANGED <<pingVars, tableVars, killVars, windowVars, gpuVars>>

browser_go ==
    /\ CanClick
    /\ LET url == Strip(url_edit)
       IN  IF url = <<>>
           THEN /\ go_last' = [text |-> url_edit, navigated |-> FALSE]
                /\ UNCHANGED navigated
           ELSE /\ go_last' = [text |-> url_edit, navigated |-> TRUE]
                /\ navigated' = NavigateTo(NormalizeUrl(url))
    /\ UNCHANGED <<url_edit, WEB_AVAILABLE>>
    /\ UNCHANGED <<pingVars, tableVars, killVars, windowVars, gpuVars>>

-----------------------------------------------------------------------------
\* ProcessTable (lines 165-235).  Percentages are counted in tenths of a
\* percent, so 125 is 12.5 %.

\* Python's None, the value psutil's as_dict gives an attribute it may not
\* read (ad_value): no percentage equals it
None == -1

DigitChar(d) ==
    CASE d = 0 -> "0" [] d = 1 -> "1" [] d = 2 -> "2" [] d = 3 -> "3"
      [] d = 4 -> "4" [] d = 5 -> "5" [] d = 6 -> "6" [] d = 7 -> "7"
      [] d = 8 -> "8" [] d = 9 -> "9"

DigitVal(c) == CHOOSE d \in 0..9 : DigitChar(d) = c

\* str(n) of a natural number
RECURSIVE Str(_)
Str(n) == IF n < 10 THEN <<DigitChar(n)>> ELSE Str(n \div 10) \o <<DigitChar(n % 10)>>

\* int(text) of a text of digits
RECURSIVE ParseInt(_)
ParseInt(t) ==
    IF Len(t) = 1 THEN DigitVal(t[1])
    ELSE 10 * ParseInt(SubSeq(t, 1, Len(t) - 1)) + DigitVal(t[Len(t)])

\* f"{x:.1f}" of a number of tenths
Format1f(x) == Str(x \div 10) \o <<".">> \o Str(x % 10)

\* dict.get(key, default)
Get(d, key, default) == IF key \in DOMAIN d THEN d[key] ELSE default

\* item(row, col) of a cell that holds no QTableWidgetItem
NoItem == <<"[no item]">>

BlankRow == [pid |-> NoItem, name |-> NoItem, cpu |-> NoItem, mem |-> NoItem]

\* QTableWidget.setRowCount(n): rows beyond n go, new rows hold no items
setRowCount(tbl, n) ==
    [i \in 1..n |-> IF i <= Len(tbl) THEN tbl[i] ELSE BlankRow]

\* the sort key of line 218
CpuKey(p) == Get(p, "cpu_percent", 0)

\* list.sort compares keys with <; None < x raises TypeError, and with two
\* or more elements every element is compared at least once
SortRaises(procs) ==
    /\ Len(procs) >= 2
    /\ \E i \in 1..Len(procs) : CpuKey(procs[i]) = None

\* e put behind the elements of the sorted list t whose key is not smaller
InsertDesc(t, e) ==
    LET smaller == {i \in 1..Len(t) : CpuKey(t[i]) < CpuKey(e)}
        at == IF smaller = {} THEN Len(t) + 1
              ELSE CHOOSE i \in smaller : \A j \in smaller : i <= j
    IN  SubSeq(t, 1, at - 1) \o <<e>> \o SubSeq(t, at, Len(t))

\* procs.sort(key=..., reverse=True): descending and stable
RECURSIVE SortDesc(_)
SortDesc(procs) ==
    IF procs = <<>> THEN <<>>
    ELSE InsertDesc(SortDesc(SubSeq(procs, 1, Len(procs) - 1)), procs[Len(procs)])

\* the loop of lines 221-225 from row on; formatting None raises TypeError
\* and leaves the rest of the table as it was
RECURSIVE FillRows(_, _, _)
FillRows(tbl, procs, row) ==
    IF row > Len(procs) THEN [table |-> tbl, ok |-> TRUE]
    ELSE LET p == procs[row]
             cpu == Get(p, "cpu_percent", 0)
             mem == Get(p, "memory_percent", 0)
             t1 == [tbl EXCEPT ![row].pid = IF "pid" \in DOMAIN p THEN Str(p.pid) ELSE <<>>,
                               ![row].name = Get(p, "name", <<>>)]
         IN  IF cpu = None THEN [table |-> t1, ok |-> FALSE]
             ELSE IF mem = None
             THEN [table |-> [t1 EXCEPT ![row].cpu = Format1f(cpu)], ok |-> FALSE]
             ELSE FillRows([t1 EXCEPT ![row].cpu = Format1f(cpu),
                                      ![row].mem = Format1f(mem)], procs, row + 1)

\* ProcessTable.refresh on the snapshot process_iter yields (lines 206-227):
\* the table afterwards, and whether the try block ran to its end
RefreshTable(tbl, snap) ==
    LET procs == SelectSeq(snap, LAMBDA info : DOMAIN info # {})
    IN  IF SortRaises(procs) THEN [table |-> tbl, ok |-> FALSE]
        ELSE FillRows(setRowCount(tbl, Len(procs)), SortDesc(procs), 1)

\* one call of refresh() by the caller `by`
refresh(by, snap) ==
    LET r == RefreshTable(table, snap)
    IN  /\ table' = r.table
        /\ selected' = IF selected > Len(r.table) THEN 0 ELSE selected
        /\ last_snap' = snap
        /\ last_refresh' = [by |-> by, ok |-> r.ok]

\* ProcessTable.get_selected_pid (lines 229-235)
get_selected_pid ==
    IF selected = 0 THEN None
    ELSE IF table[selected].pid = NoItem THEN None
    ELSE ParseInt(table[selected].pid)

\* entries of a snapshot; process_iter yields them in PID order
Proc(pid, name, cpu, mem) ==
    [pid |-> pid, name |-> name, cpu_percent |-> cpu, memory_percent |-> mem]

N_idle == <<"i", "d", "l", "e">>
N_a == <<"a">>
N_b == <<"b">>

P0 == Proc(0, N_idle, 0, 0)
P1 == Proc(1, N_a, 25, 10)
P1hot == Proc(1, N_a, 300, 10)
P2 == Proc(2, N_b, 120, 5)
P2tie == Proc(2, N_b, 25, 7)
P2cpuNone == Proc(2, N_b, None, 5)
P2memNone == Proc(2, N_b, 120, None)
P1bare == [pid |-> 1, name |-> N_a]
P12 == Proc(12, N_b, 999, 1000)

Snapshots ==
    { <<>>,
      <<P1>>,
      <<P1, P2>>,
      <<P0, P1, P2>>,
      <<P0, P1hot, P2>>,
      <<P1, P2tie>>,
      <<P1bare, P2>>,
      <<P2, P12>>,
      <<P2cpuNone>>,
      <<P1, P2cpuNone>>,
      <<P1, P2memNone>>,
      <<P0, P1, P2memNone>> }

\* the user selects a row, or clears the selection with row = 0
select_row ==
    /\ CanClick
    /\ \E row \in 0..Len(table) : selected' = row
    /\ UNCHANGED <<table, last_snap, last_refresh>>
    /\ UNCHANGED <<pingVars, browserVars, killVars, windowVars, gpuVars>>

\* the refresh button (line 409)
refresh_clicked(snaps) ==
    /\ CanClick
    /\ \E snap \in snaps : refresh("button", snap)
    /\ UNCHANGED <<pingVars, browserVars, killVars, windowVars, gpuVars>>

-----------------------------------------------------------------------------
\* kill_selected (lines 641-696).  The handler is followed through its
\* message boxes, whose nested event loops let the timers fire, and through
\* its blocking calls into psutil.

\* the timeout of psutil.wait_procs, in seconds (line 667)
WaitTimeout == 3

NoKill == [reply |-> "none", shown |-> <<>>, refreshes |-> 0, returned |-> FALSE]

\* the except clauses without the one for AccessDenied
DialogFor_no_denied_clause(exc) ==
    IF exc = "none" THEN "success"
    ELSE IF exc = "NoSuchProcess" THEN "nosuch"
    ELSE "failed"

\* the except clauses of lines 677-694, in their order
DialogFor(exc) ==
    IF exc = "none" THEN "success"
    ELSE IF exc = "NoSuchProcess" THEN "nosuch"
    ELSE IF exc = "AccessDenied" THEN "denied"
    ELSE "failed"

\* `not pid` of line 644
NotPid(pid) == pid = None \/ pid = 0

\* what a psutil call on the process handle can do
CallOutcomes == IF proc = "alive" THEN {"ok", "AccessDenied", "Error"} ELSE {"NoSuchProcess"}

\* the try block is left with exception exc (or with none): its message box
Leave(exc) ==
    /\ kexc' = exc
    /\ kpc' = "msg"
    /\ dialog' = DialogFor(exc)
    /\ kdone' = [kdone EXCEPT !.shown = Append(@, DialogFor(exc))]

\* lines 643-658: the click on the kill button up to the first message box
kill_selected_begin ==
    /\ CanClick
    /\ LET pid == get_selected_pid
       IN  /\ kpid' = pid
           /\ IF NotPid(pid)
              THEN /\ kpc' = "select"
                   /\ dialog' = "select"
                   /\ kdone' = [NoKill EXCEPT !.shown = <<"select">>]
              ELSE /\ kpc' = "confirm"
                   /\ dialog' = "confirm"
                   /\ kdone' = [NoKill EXCEPT !.shown = <<"confirm">>]
    /\ proc' = "none"
    /\ elapsed' = 0
    /\ klog' = <<>>
    /\ kexc' = "none"
    /\ UNCHANGED <<pingVars, browserVars, tableVars, windowVars, gpuVars>>

\* lines 645-650: the information box is closed and the handler returns
select_dismissed ==
    /\ kpc = "select"
    /\ kpc' = "idle"
    /\ dialog' = "none"
    /\ kdone' = [kdone EXCEPT !.returned = TRUE]
    /\ UNCHANGED <<kpid, proc, elapsed, klog, kexc>>
    /\ UNCHANGED <<pingVars, browserVars, tableVars, windowVars, gpuVars>>

\* lines 652-661: the answer to the question box; Escape answers No
confirm_replied ==
    /\ kpc = "confirm"
    /\ dialog' = "none"
    /\ \E reply \in {"Yes", "No"} :
         IF reply = "No"
         THEN /\ kpc' = "idle"
              /\ kdone' = [kdone EXCEPT !.reply = reply, !.returned = TRUE]
         ELSE /\ kpc' = "open"
              /\ kdone' = [kdone EXCEPT !.reply = reply]
    /\ UNCHANGED <<kpid, proc, elapsed, klog, kexc>>
    /\ UNCHANGED <<pingVars, browserVars, tableVars, windowVars, gpuVars>>

\* lines 664-665: psutil.Process(pid) and p.name()
kill_open ==
    /\ kpc = "open"
    /\ \E out \in {"ok", "NoSuchProcess", "AccessDenied", "Error"} :
         /\ proc' = IF out = "NoSuchProcess" THEN "none" ELSE "alive"
         /\ IF out = "ok"
            THEN kpc' = "term" /\ UNCHANGED <<kexc, dialog, kdone>>
            ELSE Leave(out)
    /\ UNCHANGED <<kpid, elapsed, klog>>
    /\ UNCHANGED <<pingVars, browserVars, tableVars, windowVars, gpuVars>>

\* line 666: p.terminate()
kill_terminate ==
    /\ kpc = "term"
    /\ klog' = Append(klog, "terminate")
    /\ \E out \in CallOutcomes :
         IF out = "ok"
         THEN kpc' = "wait" /\ UNCHANGED <<kexc, dialog, kdone>>
         ELSE Leave(out)
    /\ UNCHANGED <<kpid, proc, elapsed>>
    /\ UNCHANGED <<pingVars, browserVars, tableVars, windowVars, gpuVars>>

\* the target process exits, of itself or because of a signal
proc_exits ==
    /\ proc = "alive"
    /\ proc' = "exited"
    /\ UNCHANGED <<kpc, kpid, elapsed, klog, kexc, dialog, kdone>>
    /\ UNCHANGED <<pingVars, browserVars, tableVars, windowVars, gpuVars>>

\* line 667: a second passes inside wait_procs
wait_tick ==
    /\ kpc = "wait"
    /\ proc = "alive"
    /\ elapsed < WaitTimeout
    /\ elapsed' = elapsed + 1
    /\ UNCHANGED <<kpc, kpid, proc, klog, kexc, dialog, kdone>>
    /\ UNCHANGED <<pingVars, browserVars, tableVars, windowVars, gpuVars>>

\* wait_procs followed by p.kill() whatever the wait returned
wait_returns_always_kill ==
    /\ kpc = "wait"
    /\ \/ /\ proc = "exited"
          /\ klog' = Append(klog, "gone")
       \/ /\ proc = "alive"
          /\ elapsed = WaitTimeout
          /\ klog' = Append(klog, "alive")
    /\ kpc' = "force"
    /\ UNCHANGED <<kexc, dialog, kdone>>
    /\ UNCHANGED <<kpid, proc, elapsed>>
    /\ UNCHANGED <<pingVars, browserVars, tableVars, windowVars, gpuVars>>

\* lines 667-669: wait_procs returns (gone, alive); the success box follows
\* directly when alive is empty
wait_returns ==
    /\ kpc = "wait"
    /\ \/ /\ proc = "exited"
          /\ klog' = Append(klog, "gone")
          /\ Leave("none")
       \/ /\ proc = "alive"
          /\ elapsed = WaitTimeout
          /\ klog' = Append(klog, "alive")
          /\ kpc' = "force"
          /\ UNCHANGED <<kexc, dialog, kdone>>
    /\ UNCHANGED <<kpid, proc, elapsed>>
    /\ UNCHANGED <<pingVars, browserVars, tableVars, windowVars, gpuVars>>

\* line 670: p.kill(), which does not wait for the process to exit
kill_force ==
    /\ kpc = "force"
    /\ klog' = Append(klog, "kill")
    /\ \E out \in CallOutcomes : Leave(IF out = "ok" THEN "none" ELSE out)
    /\ UNCHANGED <<kpid, proc, elapsed>>
    /\ UNCHANGED <<pingVars, browserVars, tableVars, windowVars, gpuVars>>

\* lines 672-696: the outcome box is closed, the finally clause refreshes
\* the table, the handler returns
message_dismissed(snaps) ==
    /\ kpc = "msg"
    /\ kpc' = "idle"
    /\ dialog' = "none"
    /\ \E snap \in snaps : refresh("kill", snap)
    /\ kdone' = [kdone EXCEPT !.refreshes = @ + 1, !.returned = TRUE]
    /\ UNCHANGED <<kpid, proc, elapsed, klog, kexc>>
    /\ UNCHANGED <<pingVars, browserVars, windowVars, gpuVars>>

-----------------------------------------------------------------------------
\* Timers, tray and window (lines 557-568, 722-767, 819-839, 155-159)

\* the GUI thread is inside an event loop (not inside a blocking call)
EventLoop == kpc \in {"idle", "select", "confirm", "msg"}

\* a timeout of self.timer, started with 3000 ms, calls proc_table.refresh
\* (lines 560-562)
timer_timeout(snaps) ==
    /\ running
    /\ timer_active
    /\ EventLoop
    /\ \E snap \in snaps : refresh("timer", snap)
    /\ tick' = 1 - tick
    /\ UNCHANGED <<window, tray, running, timer_active, close_event>>
    /\ UNCHANGED <<pingVars, browserVars, killVars, gpuVars>>

\* TitleBar.minimize (lines 155-156)
minimize ==
    /\ CanClick
    /\ window' = "minimized"
    /\ UNCHANGED <<tray, running, timer_active, close_event, tick>>
    /\ UNCHANGED <<pingVars, browserVars, tableVars, killVars, gpuVars>>

\* show_window (lines 763-767): showNormal()
show_window ==
    /\ window' = "shown"
    /\ UNCHANGED <<tray, running, timer_active, close_event, tick>>
    /\ UNCHANGED <<pingVars, browserVars, tableVars, killVars, gpuVars>>

\* the tray menu's first action (lines 744-745)
show_action ==
    /\ running
    /\ tray
    /\ EventLoop
    /\ show_window

TrayReasons == {"Context", "DoubleClick", "Trigger", "MiddleClick"}

\* tray_activated (lines 758-761)
tray_activated ==
    /\ running
    /\ tray
    /\ EventLoop
    /\ \E reason \in TrayReasons :
         IF reason = "DoubleClick"
         THEN show_window
         ELSE UNCHANGED vars

\* the tray menu's quit action (lines 747-748): QApplication.quit()
quit_action ==
    /\ running
    /\ tray
    /\ kpc = "idle"
    /\ dialog = "none"
    /\ running' = FALSE
    /\ UNCHANGED <<window, tray, timer_active, close_event, tick>>
    /\ UNCHANGED <<pingVars, browserVars, tableVars, killVars, gpuVars>>

\* closeEvent that stops the process timer when the window hides to the tray
closeEvent_stops_timer ==
    /\ running
    /\ window \in {"shown", "minimized"}
    /\ kpc = "idle"
    /\ dialog = "none"
    /\ \E reply \in {"Yes", "No", "Cancel"} :
         IF reply = "Yes"
         THEN /\ close_event' = [reply |-> reply, event |-> "ignored",
                                 window |-> window, tray |-> tray]
              /\ window' = "hidden"
              /\ timer_active' = FALSE
              /\ UNCHANGED <<tray, running>>
         ELSE IF reply = "No"
         THEN /\ tray' = FALSE
              /\ close_event' = [reply |-> reply, event |-> "accepted",
                                 window |-> window, tray |-> tray]
              /\ window' = "closed"
              /\ running' = FALSE
              /\ UNCHANGED timer_active
         ELSE /\ close_event' = [reply |-> reply, event |-> "ignored",
                                 window |-> window, tray |-> tray]
              /\ UNCHANGED <<window, tray, running, timer_active>>
    /\ UNCHANGED tick
    /\ UNCHANGED <<pingVars, browserVars, tableVars, killVars, gpuVars>>

\* closeEvent without event.ignore() in its last branch: Qt accepts a close
\* event that nobody ignored
closeEvent_cancel_not_ignored ==
    /\ running
    /\ window \in {"shown", "minimized"}
    /\ kpc = "idle"
    /\ dialog = "none"
    /\ \E reply \in {"Yes", "No", "Cancel"} :
         IF reply = "Yes"
         THEN /\ close_event' = [reply |-> reply, event |-> "ignored",
                                 window |-> window, tray |-> tray]
              /\ window' = "hidden"
              /\ UNCHANGED <<tray, running>>
         ELSE IF reply = "No"
         THEN /\ tray' = FALSE
              /\ close_event' = [reply |-> reply, event |-> "accepted",
                                 window |-> window, tray |-> tray]
              /\ window' = "closed"
              /\ running' = FALSE
         ELSE /\ close_event' = [reply |-> reply, event |-> "accepted",
                                 window |-> window, tray |-> tray]
              /\ window' = "closed"
              /\ running' = FALSE
              /\ UNCHANGED tray
    /\ UNCHANGED <<timer_active, tick>>
    /\ UNCHANGED <<pingVars, browserVars, tableVars, killVars, gpuVars>>

\* closeEvent (lines 819-839), reached by TitleBar.close (lines 158-159);
\* Escape answers Cancel.  Accepting the event closes the last window,
\* which ends the application.
closeEvent ==
    /\ running
    /\ window \in {"shown", "minimized"}
    /\ kpc = "idle"
    /\ dialog = "none"
    /\ \E reply \in {"Yes", "No", "Cancel"} :
         IF reply = "Yes"
         THEN /\ close_event' = [reply |-> reply, event |-> "ignored",
                                 window |-> window, tray |-> tray]
              /\ window' = "hidden"
              /\ UNCHANGED <<tray, running>>
         ELSE IF reply = "No"
         THEN /\ tray' = FALSE
              /\ close_event' = [reply |-> reply, event |-> "accepted",
                                 window |-> window, tray |-> tray]
              /\ window' = "closed"
              /\ running' = FALSE
         ELSE /\ close_event' = [reply |-> reply, event |-> "ignored",
                                 window |-> window, tray |-> tray]
              /\ UNCHANGED <<window, tray, running>>
    /\ UNCHANGED <<timer_active, tick>>
    /\ UNCHANGED <<pingVars, browserVars, tableVars, killVars, gpuVars>>

-----------------------------------------------------------------------------
\* reset_gpu (lines 769-817)

\* virtual key codes (lines 783-786)
VK_LWIN == 91

VK_CONTROL == 17

VK_SHIFT == 16

VK_B == 66

\* flags of a key-up event (line 790)
KEYEVENTF_KEYUP == 2

\* keybd(vk, down): the event user32.keybd_event is called with (lines 788-791)
keybd(vk, down) ==
    [call |-> "keybd_event", vk |-> vk, flags |-> IF down THEN 0 ELSE KEYEVENTF_KEYUP]

\* the calls of the try block in program order (lines 780-810)
TrySteps ==
    << [call |-> "windll.user32", vk |-> 0, flags |-> 0],
       keybd(VK_LWIN, TRUE),
       keybd(VK_CONTROL, TRUE),
       keybd(VK_SHIFT, TRUE),
       keybd(VK_B, TRUE),
       [call |-> "sleep", vk |-> 0, flags |-> 0],
       keybd(VK_B, FALSE),
       keybd(VK_SHIFT, FALSE),
       keybd(VK_CONTROL, FALSE),
       keybd(VK_LWIN, FALSE),
       [call |-> "QMessageBox.information", vk |-> 0, flags |-> 0] >>

IsKeyEvent(step) == step.call = "keybd_event"

\* the key events of the calls that completed: a call that raises leaves
\* the try block, and the calls after it are not made
KeyEventsBefore(raised) ==
    IF raised = 0
    THEN SelectSeq(TrySteps, IsKeyEvent)
    ELSE SelectSeq(SubSeq(TrySteps, 1, raised - 1), IsKeyEvent)

\* every call of the try block, and 0 for a run in which none raises
RaisePoints == 0..Len(TrySteps)

NoReset == [events |-> <<>>, shown |-> "none"]

\* reset_gpu, from the call to its return: the message box it ends with is
\* closed by the user.  With WINDOWS_AVAILABLE false the process panel has
\* no reset button (lines 417-422) and only a direct call gets here.
reset_gpu(raises) ==
    /\ CanClick
    /\ IF ~WINDOWS_AVAILABLE
       THEN gpu_last' = [events |-> <<>>, shown |-> "windows_only"]
       ELSE \E raised \in raises :
              gpu_last' = [events |-> KeyEventsBefore(raised),
                           shown |-> IF raised = 0 THEN "sent" ELSE "failed"]
    /\ UNCHANGED WINDOWS_AVAILABLE
    /\ UNCHANGED <<pingVars, browserVars, tableVars, killVars, windowVars>>

-----------------------------------------------------------------------------
\* The state after UtilifiWindow.__init__ and w.show() (lines 241-257,
\* 852-853): ProcessTable.__init__ has refreshed the table once, the web
\* view shows the default page, both timers run, the tray icon is visible.

InitWith(snaps) ==
    /\ ping_edit = H_Default
    /\ ping_result = T_Dash
    /\ ping_style = "accent"
    /\ ping_stack = <<>>
    /\ ping_last = [kind |-> "init", host |-> <<>>, run |-> NoRun]
    /\ ping_recent = <<>>
    /\ url_edit = U_Default
    /\ WEB_AVAILABLE \in BOOLEAN
    /\ navigated = IF WEB_AVAILABLE
                   THEN [via |-> "QWebEngineView.setUrl", url |-> U_Default]
                   ELSE NoNavigation
    /\ go_last = [text |-> <<>>, navigated |-> FALSE]
    /\ \E snap \in snaps :
         /\ table = RefreshTable(<<>>, snap).table
         /\ last_snap = snap
         /\ last_refresh = [by |-> "init", ok |-> RefreshTable(<<>>, snap).ok]
    /\ selected = 0
    /\ kpc = "idle"
    /\ kpid = None
    /\ proc = "none"
    /\ elapsed = 0
    /\ klog = <<>>
    /\ kexc = "none"
    /\ dialog = "none"
    /\ kdone = NoKill
    /\ window = "shown"
    /\ tray = TRUE
    /\ running = TRUE
    /\ timer_active = TRUE
    /\ close_event = [reply |-> "none", event |-> "none", window |-> "shown", tray |-> TRUE]
    /\ tick = 0
    /\ WINDOWS_AVAILABLE \in BOOLEAN
    /\ gpu_last = NoReset

\* the snapshots and inputs of the specifications that are not about them
SnapshotsApp == { <<P0, P1>>, <<P1, P2memNone>> }

InitApp == InitWith(SnapshotsApp)

\* the process table alone, with every snapshot
InitTable == InitWith(Snapshots)

NextTable ==
    \/ select_row
    \/ refresh_clicked(Snapshots)
    \/ timer_timeout(Snapshots)

SpecTable == InitTable /\ [][NextTable]_vars

\* the kill button
NextKill ==
    \/ select_row
    \/ timer_timeout(SnapshotsApp)
    \/ kill_selected_begin
    \/ select_dismissed
    \/ confirm_replied
    \/ kill_open
    \/ kill_terminate
    \/ proc_exits
    \/ wait_tick
    \/ wait_returns
    \/ kill_force
    \/ message_dismissed(SnapshotsApp)

SpecKill == InitApp /\ [][NextKill]_vars

\* the ping panel, with every run of the ping command
NextPing ==
    \/ ping_edit_typed(PingHosts)
    \/ do_ping_begin
    \/ do_ping_finish(PingRuns)

SpecPing == InitApp /\ [][NextPing]_vars

\* the browser panel, with every address-bar text
NextBrowser ==
    \/ url_edit_typed(UrlTexts)
    \/ browser_go

SpecBrowser == InitApp /\ [][NextBrowser]_vars

\* the whole window as it is built where ctypes.wintypes does not import
\* and the process panel has no reset button (lines 417-422): every
\* handler, each with one input, so that the handlers of the panels
\* interleave with the window, the tray and the timer
SnapshotsOne == { <<P1>> }

PingRunsOne == { [launched |-> TRUE, seconds |-> 1, rc |-> 0, out |-> L_linux] }

Init == InitWith(SnapshotsOne) /\ ~WINDOWS_AVAILABLE

Next ==
    \/ do_ping_begin
    \/ do_ping_finish(PingRunsOne)
    \/ browser_go
    \/ select_row
    \/ timer_timeout(SnapshotsOne)
    \/ kill_selected_begin
    \/ select_dismissed
    \/ confirm_replied
    \/ kill_open
    \/ kill_terminate
    \/ proc_exits
    \/ wait_tick
    \/ wait_returns
    \/ kill_force
    \/ message_dismissed(SnapshotsOne)
    \/ minimize
    \/ show_action
    \/ tray_activated
    \/ quit_action
    \/ closeEvent

Spec == Init /\ [][Next]_vars

\* reset_gpu on either platform, with an exception at any call of its try
\* block, next to the handlers of the window and the tray
InitGpu == InitWith(SnapshotsOne)

NextGpu ==
    \/ reset_gpu(RaisePoints)
    \/ minimize
    \/ show_action
    \/ tray_activated
    \/ quit_action
    \/ closeEvent

SpecGpu == InitGpu /\ [][NextGpu]_vars

-----------------------------------------------------------------------------
\* Claims about kill_selected, checked under SpecKill.

\* C1: a confirmed kill sends the terminate request first, then waits at
\* most WaitTimeout seconds, and sends the forced kill if and only if the
\* wait ended with the process alive: the kill never comes before the
\* terminate request and never after a wait that found the process gone.
C1_GracefulThenForced ==
    /\ elapsed <= WaitTimeout
    /\ klog \in { <<>>,
                  <<"terminate">>,
                  <<"terminate", "gone">>,
                  <<"terminate", "alive">>,
                  <<"terminate", "alive", "kill">> }
    /\ (Len(klog) >= 2 /\ klog[2] = "alive") => elapsed = WaitTimeout
    /\ (Len(klog) >= 2 /\ klog[2] = "gone") => proc = "exited"
    /\ (Len(klog) >= 2 /\ kpc \in {"msg", "idle"})
          => (klog[2] = "alive" <=> (Len(klog) = 3 /\ klog[3] = "kill"))
    /\ klog # <<>> => kdone.reply = "Yes"

C1_Witness ==
    /\ klog = <<"terminate", "alive", "kill">>
    /\ elapsed = WaitTimeout
    /\ kexc = "none"
    /\ kdone.returned

\* C8: kill_selected sends requests only when a row is selected and the
\* reply is Yes; with no selection it shows only the "select a process"
\* box; with a reply other than Yes it touches no process and does not
\* refresh the table; and whenever a row is selected, PID 0 included, the
\* question box for that PID is shown.
C8_OnlySelectedAndConfirmed ==
    /\ klog # <<>> => (kpid # None /\ kdone.reply = "Yes")
    /\ (kdone.shown # <<>> /\ kpid = None)
          => (kdone.shown = <<"select">> /\ klog = <<>> /\ kdone.refreshes = 0)
    /\ kdone.reply = "No"
          => (klog = <<>> /\ proc = "none" /\ kdone.refreshes = 0)
    /\ (kdone.shown # <<>> /\ kpid # None) => kdone.shown[1] = "confirm"

\* C9: after a confirmed kill the outcome box matches the exception:
\* NoSuchProcess, AccessDenied, any other exception, or success when none
\* was raised; exactly one outcome box is shown, and the handler has
\* refreshed the table exactly once when it returns, not before.
C9_OutcomeMatchesException ==
    /\ (kdone.reply = "Yes" /\ kpc = "msg") =>
          /\ kdone.refreshes = 0
          /\ dialog = kdone.shown[2]
    /\ (kdone.reply = "Yes" /\ kdone.shown # <<"confirm">>) =>
          /\ Len(kdone.shown) = 2
          /\ kdone.shown[1] = "confirm"
          /\ kexc = "NoSuchProcess" => kdone.shown[2] = "nosuch"
          /\ kexc = "AccessDenied" => kdone.shown[2] = "denied"
          /\ kexc = "Error" => kdone.shown[2] = "failed"
          /\ kexc = "none" <=> kdone.shown[2] = "success"
    /\ (kdone.reply = "Yes" /\ kdone.returned) =>
          /\ Len(kdone.shown) = 2
          /\ kdone.refreshes = 1

C9_Witness ==
    /\ kdone.returned
    /\ kdone.reply = "Yes"
    /\ kexc = "AccessDenied"
    /\ kdone.shown = <<"confirm", "denied">>
    /\ klog = <<"terminate", "alive", "kill">>
    /\ kdone.refreshes = 1

\* C12: whenever kill_selected shows the success message, the target
\* process has exited: it was gone by the end of the wait, or the forced
\* kill has taken effect before the message is shown.
C12_SuccessMeansExited ==
    dialog = "success" => proc = "exited"

-----------------------------------------------------------------------------
\* Claims about do_ping, checked under SpecPing.

\* the exit state of a run, as the command line shows it
RunTimedOut(run) == run.launched /\ run.seconds > PingTimeout
RunExited(run) == run.launched /\ run.seconds <= PingTimeout

\* a line carries a round-trip time in a form one of the patterns covers
LineCarriesTime(line) ==
    \E i \in 1..Len(patterns) : Search(patterns[i], line) # <<>>

\* C2: for a non-empty host the three failure texts and the success text
\* never coincide: a non-zero exit code gives the no-reply text, the expiry
\* of the timeout the timeout text, any other exception the error text,
\* and a text with the check mark is shown only for exit code 0.
C2_DistinctFailureStates ==
    ping_last.kind = "final" =>
        LET run == ping_last.run
        IN  /\ (RunExited(run) /\ run.rc # 0)
                  => (ping_result = T_NoReply /\ ping_style = "danger")
            /\ RunTimedOut(run)
                  => (ping_result = T_Timeout /\ ping_style = "danger")
            /\ ~run.launched
                  => (ping_result = T_Error /\ ping_style = "danger")
            /\ Head(ping_result) = "[check]" <=> (RunExited(run) /\ run.rc = 0)
            /\ Cardinality({T_NoReply, T_Timeout, T_Error}) = 3
            /\ ping_last.host # <<>>

C2_Witness ==
    /\ ping_last.kind = "final"
    /\ RunTimedOut(ping_last.run)
    /\ ping_last.run.out = L_linux
    /\ ping_result = T_Timeout

\* C3: when the command exits with 0 and a line of the output carries a
\* time in a form the patterns cover, the label shows the check mark and
\* "N ms", N being the number of the first such line.
C3_FirstTimedLineShown ==
    (ping_last.kind = "final" /\ RunExited(ping_last.run) /\ ping_last.run.rc = 0) =>
        LET lines == SplitLines(ping_last.run.out)
            timed == {i \in 1..Len(lines) : LineCarriesTime(lines[i])}
        IN  timed # {} =>
              LET first == CHOOSE i \in timed : \A j \in timed : i <= j
              IN  ping_result = <<"[check]", " ">> \o TryPatterns(patterns, lines[first])

\* C4: when the command exits with 0 and no line of the output yields a
\* time value, the label shows the check mark and OK in the success
\* colour, and no failure text.
C4_FallbackOk ==
    (/\ ping_last.kind = "final"
     /\ RunExited(ping_last.run)
     /\ ping_last.run.rc = 0
     /\ \A i \in 1..Len(SplitLines(ping_last.run.out)) :
            ~LineCarriesTime(SplitLines(ping_last.run.out)[i]))
    => /\ ping_result = <<"[check]", " ", "O", "K">>
       /\ ping_style = "success"
       /\ ping_result \notin {T_NoReply, T_Timeout, T_Error}

C4_Witness ==
    /\ ping_last.kind = "final"
    /\ ping_last.run.rc = 0
    /\ RunExited(ping_last.run)
    /\ ping_last.run.out = L_bad
    /\ ping_result = <<"[check]", " ", "O", "K">>
    /\ ping_style = "success"

\* no do_ping is running inside the processEvents call of another
NoNestedPing == Len(ping_stack) <= 1

\* with no do_ping left inside processEvents, the label does not show the
\* hourglass, and a final status comes from the request that started last
LastRequestShown ==
    ping_stack = <<>> =>
        /\ ping_result # T_Hourglass
        /\ ping_last.kind = "final" => ping_last.host = ping_recent

\* C13: ping requests are handled one at a time and in order: no do_ping
\* runs nested inside a do_ping that has not yet set its final status, and
\* once every pending request has been handled the label shows a final
\* status, never the hourglass, that is the outcome of the request
\* submitted last.
C13_OneAtATimeInOrder ==
    /\ NoNestedPing
    /\ LastRequestShown

-----------------------------------------------------------------------------
\* Claim about ProcessTable.refresh, checked under SpecTable.

\* the number a cell of the CPU column shows, in tenths
CellTenths(text) ==
    10 * ParseInt(SubSeq(text, 1, Len(text) - 2)) + ParseInt(<<text[Len(text)]>>)

\* C5: after every refresh, whatever the snapshot (entries without or with
\* None as cpu_percent or memory_percent included), the table holds exactly
\* one row per entry of the snapshot and the rows are in non-increasing
\* order of CPU %.
C5_RowsMatchSnapshotSorted ==
    /\ Len(table) = Len(last_snap)
    /\ \A i \in 1..Len(table) :
          /\ table[i].pid # NoItem
          /\ table[i].cpu # NoItem
          /\ table[i].mem # NoItem
    /\ \A k \in 1..Len(last_snap) :
          Cardinality({i \in 1..Len(table) : table[i].pid = Str(last_snap[k].pid)}) = 1
    /\ \A i \in 1..Len(table) : \A j \in 1..Len(table) :
          i < j => CellTenths(table[i].cpu) >= CellTenths(table[j].cpu)

-----------------------------------------------------------------------------
\* Claim about browser_go, checked under SpecBrowser.

HasScheme(url) == StartsWith(url, P_http) \/ StartsWith(url, P_https)

\* C7: browser_go navigates nowhere when the address bar is empty after
\* trimming, to the trimmed text itself when it starts with http:// or
\* https://, and to https:// followed by the trimmed text otherwise; so
\* every URL handed to the web view, or to the system browser when the
\* web engine is missing, starts with one of the two schemes, and
\* normalising it again changes nothing.
C7_NormalizedNavigation ==
    /\ [][browser_go =>
            LET t == Strip(url_edit)
            IN  /\ t = <<>> => navigated' = navigated
                /\ (t # <<>> /\ HasScheme(t)) => navigated'.url = t
                /\ (t # <<>> /\ ~HasScheme(t)) => navigated'.url = P_https \o t
                /\ t # <<>> => navigated'.via = IF WEB_AVAILABLE
                                                THEN "QWebEngineView.setUrl"
                                                ELSE "webbrowser.open"]_vars
    /\ [](navigated.via # "none" =>
            /\ HasScheme(navigated.url)
            /\ Strip(navigated.url) = navigated.url
            /\ NormalizeUrl(Strip(navigated.url)) = navigated.url)

C7_Witness ==
    /\ go_last = [text |-> <<" ">> \o U_ab \o <<" ">>, navigated |-> TRUE]
    /\ navigated = [via |-> "webbrowser.open", url |-> P_https \o U_ab]

-----------------------------------------------------------------------------
\* Claim about reset_gpu, checked under SpecGpu.

\* the full chord: down Win, Ctrl, Shift, B, then up B, Shift, Ctrl, Win
KeySequence ==
    << keybd(VK_LWIN, TRUE), keybd(VK_CONTROL, TRUE),
       keybd(VK_SHIFT, TRUE), keybd(VK_B, TRUE),
       keybd(VK_B, FALSE), keybd(VK_SHIFT, FALSE),
       keybd(VK_CONTROL, FALSE), keybd(VK_LWIN, FALSE) >>

\* every key-down of the events is followed by a key-up of the same key
AllReleased(events) ==
    \A i \in 1..Len(events) :
        events[i].flags = 0 =>
            \E j \in (i + 1)..Len(events) :
                /\ events[j].vk = events[i].vk
                /\ events[j].flags = KEYEVENTF_KEYUP

\* C11: reset_gpu emulates Win+Ctrl+Shift+B as a balanced key sequence.  On
\* Windows its key events are key-down for Win, Ctrl, Shift, B in that order
\* and then key-up for B, Shift, Ctrl, Win, and when it has returned, with
\* the success message or with the error warning, every key it pressed has
\* been released; without Windows support it sends no key event and shows
\* only the 'Windows only' warning.
C11_BalancedKeySequence ==
    gpu_last.shown # "none" =>
        IF WINDOWS_AVAILABLE
        THEN /\ gpu_last.shown \in {"sent", "failed"}
             /\ gpu_last.events = SubSeq(KeySequence, 1, Len(gpu_last.events))
             /\ gpu_last.shown = "sent" => gpu_last.events = KeySequence
             /\ AllReleased(gpu_last.events)
        ELSE /\ gpu_last.shown = "windows_only"
             /\ gpu_last.events = <<>>

-----------------------------------------------------------------------------
\* Claims about the window, the tray and the process timer, checked under
\* Spec.

\* C6: from the construction of the window on, every timeout of the 3000 ms
\* process timer calls ProcessTable.refresh once, and no handler stops the
\* timer while the application runs.
C6_TimerKeepsRefreshing ==
    /\ [](running => timer_active)
    /\ [][tick' # tick =>
            /\ last_refresh'.by = "timer"
            /\ table' = RefreshTable(table, last_snap').table]_vars
    /\ [][timer_active => timer_active']_vars

C6_Witness ==
    /\ running
    /\ timer_active
    /\ window = "hidden"
    /\ close_event.reply = "Yes"
    /\ tick = 1
    /\ last_refresh.by = "timer"
    /\ kdone.returned
    /\ ping_last.kind = "final"
    /\ go_last.navigated

\* C10: closeEvent ends in one of three outcomes, by the reply: Yes ignores
\* the event and hides the window, the tray icon stays visible and the
\* application runs on; No hides the tray icon and accepts the event;
\* Cancel ignores the event and leaves window and tray icon as they were.
\* From the state hidden to the tray, the tray's show action and a double
\* click on the tray icon bring the window back to the shown state.
C10_CloseOutcomes ==
    /\ [][closeEvent =>
            /\ close_event'.reply = "Yes" =>
                  /\ close_event'.event = "ignored"
                  /\ window' = "hidden"
                  /\ tray' /\ tray
                  /\ running'
            /\ close_event'.reply = "No" =>
                  /\ close_event'.event = "accepted"
                  /\ ~tray'
            /\ close_event'.reply \notin {"Yes", "No"} =>
                  /\ close_event'.event = "ignored"
                  /\ window' = window
                  /\ tray' = tray
                  /\ running']_vars
    /\ []((window = "hidden" /\ running) => tray)
    /\ [][(window = "hidden" /\ (show_action \/ tray_activated) /\ vars' # vars)
            => window' = "shown"]_vars

C10_Witness ==
    /\ window = "shown"
    /\ running
    /\ tray
    /\ close_event = [reply |-> "Yes", event |-> "ignored",
                      window |-> "minimized", tray |-> TRUE]

====
